---------------------------- MODULE Spec2Model ----------------------------
(***************************************************************************)
(* The AI Title Generator plugin (latest revision of main.ts): a command   *)
(* that sends the open note to an LLM provider and renames the note to the *)
(* sanitized title that comes back.                                        *)
(*                                                                         *)
(* Strings are sequences of tokens.  Text that the program inspects        *)
(* character by character (titles, paths, status digits, error texts) is   *)
(* one token per character; fixed literals of the source that are only     *)
(* concatenated are one token each.  String concatenation is \o.           *)
(***************************************************************************)
EXTENDS Integers, Sequences, FiniteSets, TLC

VARIABLES
    settings,   \* this.settings of the plugin
    savedData,       \* the plugin data the host persists (loadData / saveData)
    tabNotice,  \* the notice last shown by a settings-tab handler (<<>>: none)
    file,       \* view.file: whether the view has a file, and its path
    docText,    \* editor.getValue(): text of the open note
    inv,        \* the invocations of generateTitle and where each stands
    started,    \* number of invocations of the command so far
    sanIn,      \* argument handed to sanitizeFileName
    sanOut      \* results of applying sanitizeFileName once, then again

pluginVars == <<settings, savedData, tabNotice, file, docText, inv, started>>
sanVars == <<sanIn, sanOut>>
vars == <<settings, savedData, tabNotice, file, docText, inv, started, sanIn, sanOut>>

-----------------------------------------------------------------------------
(* Bounds *)

MaxSanLen == 4        \* longest file name given to sanitizeFileName
MaxInvocations == 2   \* invocations of the command in one behaviour

-----------------------------------------------------------------------------
(* Strings *)

RECURSIVE StringsUpTo(_, _)
StringsUpTo(alphabet, n) ==
    IF n = 0 THEN {<<>>}
    ELSE LET shorter == StringsUpTo(alphabet, n - 1)
         IN  shorter \cup {Append(s, c) : s \in {t \in shorter : Len(t) = n - 1}, c \in alphabet}

\* s occurs as a contiguous substring of t
Contains(t, s) ==
    \E k \in 0..(Len(t) - Len(s)) : SubSeq(t, k + 1, k + Len(s)) = s

\* White space as String.prototype.trim() understands it (representatives)
WhiteSpace == {" ", "\n"}

RECURSIVE TrimStart(_)
TrimStart(s) ==
    IF s # <<>> /\ Head(s) \in WhiteSpace THEN TrimStart(Tail(s)) ELSE s

RECURSIVE TrimEnd(_)
TrimEnd(s) ==
    IF s # <<>> /\ s[Len(s)] \in WhiteSpace THEN TrimEnd(SubSeq(s, 1, Len(s) - 1)) ELSE s

\* String.prototype.trim()
Trim(s) == TrimEnd(TrimStart(s))

-----------------------------------------------------------------------------
(* sanitizeFileName *)

\* the character class [\\/:*?"<>|]
IllegalChars == {"\\", "/", ":", "*", "?", "\"", "<", ">", "|"}

\* a character class that forgets the pipe
RemoveIllegalNoPipe(s) == SelectSeq(s, LAMBDA c : c \notin (IllegalChars \ {"|"}))

\* .replace(/[\\/:*?"<>|]/g, '')
RemoveIllegal(s) == SelectSeq(s, LAMBDA c : c \notin IllegalChars)

\* .replace(/\.\./g, '.'): one left-to-right pass over non-overlapping matches;
\* the replacement text is not scanned again
RECURSIVE ReplaceDotDot(_)
ReplaceDotDot(s) ==
    IF Len(s) < 2 THEN s
    ELSE IF s[1] = "." /\ s[2] = "."
         THEN <<".">> \o ReplaceDotDot(SubSeq(s, 3, Len(s)))
         ELSE <<s[1]>> \o ReplaceDotDot(Tail(s))

sanitizeFileName(fileName) == Trim(ReplaceDotDot(RemoveIllegal(fileName)))

-----------------------------------------------------------------------------
(* JavaScript values of a response body *)

JNull == [t |-> "null"]
JUndefined == [t |-> "undefined"]
JStr(s) == [t |-> "string", s |-> s]
JObj(f) == [t |-> "object", f |-> f]
JArr(a) == [t |-> "array", a |-> a]

EmptyObj == JObj(<<>>)
Obj1(name, v) == JObj(name :> v)

Nullish(v) == v.t \in {"null", "undefined"}

\* ToBoolean(v), as `!v` and `if (v)` apply it
Truthy(v) ==
    CASE v.t \in {"null", "undefined"} -> FALSE
      [] v.t = "string" -> v.s # <<>>
      [] OTHER -> TRUE

\* the property read v[key] of a value that is not null or undefined
\* (key "0" is the index 0)
GetProp(v, key) ==
    CASE v.t = "object" -> IF key \in DOMAIN v.f THEN v.f[key] ELSE JUndefined
      [] v.t = "array" -> IF key = "0" /\ Len(v.a) >= 1 THEN v.a[1] ELSE JUndefined
      [] v.t = "string" -> IF key = "0" /\ Len(v.s) >= 1 THEN JStr(<<v.s[1]>>) ELSE JUndefined
      [] OTHER -> JUndefined

\* the value `path` leads to inside v, wrapped in the objects and arrays of the path
RECURSIVE Wrap(_, _)
Wrap(path, leaf) ==
    IF path = <<>> THEN leaf
    ELSE IF Head(path) = "0" THEN JArr(<<Wrap(Tail(path), leaf)>>)
         ELSE Obj1(Head(path), Wrap(Tail(path), leaf))

-----------------------------------------------------------------------------
(* Thrown values and results *)

\* a thrown value: an Error (of some class) with a message, or something else
Err(name, message) == [name |-> name, message |-> message]
NoErr == Err("none", <<>>)

Returned(v) == [threw |-> FALSE, value |-> v, error |-> NoErr]
Thrown(e) == [threw |-> TRUE, value |-> <<>>, error |-> e]

\* error instanceof Error
IsErrorInstance(e) == e.name \in {"Error", "TypeError"}

DigitChars == <<"0", "1", "2", "3", "4", "5", "6", "7", "8", "9">>

\* Number.prototype.toString() of a non-negative integer
RECURSIVE NumberToString(_)
NumberToString(n) ==
    IF n < 10 THEN <<DigitChars[n + 1]>>
    ELSE NumberToString(n \div 10) \o <<DigitChars[(n % 10) + 1]>>

\* the digits of radix 16, by value (parseInt takes both cases; the model
\* types the lower case)
HexDigitChars == DigitChars \o <<"a", "b", "c", "d", "e", "f">>

IsDigit(c, radix) == \E k \in 1..radix : HexDigitChars[k] = c
DigitValue(c) == (CHOOSE k \in DOMAIN HexDigitChars : HexDigitChars[k] = c) - 1

\* the length of the longest prefix of s made of digits of the radix
RECURSIVE DigitPrefixLen(_, _)
DigitPrefixLen(s, radix) ==
    IF s # <<>> /\ IsDigit(Head(s), radix) THEN 1 + DigitPrefixLen(Tail(s), radix) ELSE 0

RECURSIVE DigitsValue(_, _)
DigitsValue(s, radix) ==
    IF s = <<>> THEN 0
    ELSE DigitsValue(SubSeq(s, 1, Len(s) - 1), radix) * radix + DigitValue(s[Len(s)])

NaN == [nan |-> TRUE, n |-> 0]
Num(n) == [nan |-> FALSE, n |-> n]
isNaN(v) == v.nan

\* parseInt(string) without a radix: leading white space is skipped, a sign
\* is taken, "0x" selects radix 16, then the longest prefix of digits is the
\* number and what follows it is ignored; no digit at all gives NaN
parseInt(string) ==
    LET S == TrimStart(string)
        negative == S # <<>> /\ Head(S) = "-"
        unsigned == IF S # <<>> /\ Head(S) \in {"+", "-"} THEN Tail(S) ELSE S
        hex == Len(unsigned) >= 2 /\ unsigned[1] = "0" /\ unsigned[2] \in {"x", "X"}
        R == IF hex THEN 16 ELSE 10
        rest == IF hex THEN SubSeq(unsigned, 3, Len(unsigned)) ELSE unsigned
        Z == SubSeq(rest, 1, DigitPrefixLen(rest, R))
    IN  IF Z = <<>> THEN NaN
        ELSE Num((IF negative THEN -1 ELSE 1) * DigitsValue(Z, R))

-----------------------------------------------------------------------------
(* Settings *)

ANTHROPIC == "anthropic"
OPENAI == "openai"
GEMINI == "gemini"
ProviderType == {ANTHROPIC, OPENAI, GEMINI}

\* a provider value no case of the switches names (it can only come from the data file)
UnknownProvider == "other"

DEFAULT_MAX_TITLE_LENGTH == 110

DEFAULT_SETTINGS ==
    [provider |-> ANTHROPIC,
     anthropicApiKey |-> <<>>,
     openaiApiKey |-> <<>>,
     geminiApiKey |-> <<>>,
     maxTitleLength |-> DEFAULT_MAX_TITLE_LENGTH,
     anthropicModel |-> <<"claude-3-7-sonnet-latest">>,
     openaiModel |-> <<"gpt-4o">>,
     geminiModel |-> <<"gemini-1.5-pro">>,
     customPrompt |-> <<"You create concise summaries. Your summaries must:\n- Be exactly one sentence\n- Never exceed ",
                        "{maxTitleLength}",
                        " characters\n- Avoid names, emojis, links, and colons\n- Focus on behaviors and impact\n- Return only the summary text, nothing else">>]

\* the keys a user has: one per provider, so that a key tells whose it is
KeyOf == [p \in ProviderType |->
             CASE p = ANTHROPIC -> <<"A">>
               [] p = OPENAI -> <<"O">>
               [] p = GEMINI -> <<"G">>]

\* what the data file may hold
StoredSettings ==
    [provider : ProviderType \cup {UnknownProvider},
     anthropicApiKey : {<<>>, KeyOf[ANTHROPIC]},
     openaiApiKey : {<<>>, KeyOf[OPENAI]},
     geminiApiKey : {<<>>, KeyOf[GEMINI]}]

\* what a user types into the API key field of provider p
TypedKeys(p) == IF p \in ProviderType THEN {<<>>, KeyOf[p], KeyOf[p] \o <<" ">>} ELSE {}

\* the key check of the single-provider revision: always the Anthropic key
getApiKeyAnthropicOnly(s) == s.anthropicApiKey

getApiKey(s) ==
    CASE s.provider = ANTHROPIC -> s.anthropicApiKey
      [] s.provider = OPENAI -> s.openaiApiKey
      [] s.provider = GEMINI -> s.geminiApiKey
      [] OTHER -> <<>>

getProviderName(s) ==
    CASE s.provider = ANTHROPIC -> <<"Anthropic">>
      [] s.provider = OPENAI -> <<"OpenAI">>
      [] s.provider = GEMINI -> <<"Google Gemini">>
      [] OTHER -> <<"AI Provider">>

-----------------------------------------------------------------------------
(* makeAPIRequest and the provider adapters, from the response on *)

HTTP_OK == 200

\* `${v}` of a value found in an error envelope
TemplateString(v) ==
    CASE v.t = "string" -> v.s
      [] v.t = "object" -> <<"[object Object]">>
      [] OTHER -> <<v.t>>

\* a makeAPIRequest that reports the status alone
makeAPIRequestStatusOnly(response) ==
    IF response.status # HTTP_OK
    THEN Thrown(Err("Error", <<"API request failed: ">> \o NumberToString(response.status)))
    ELSE Returned(response)

\* makeAPIRequest once requestUrl has resolved with `response`
makeAPIRequest(response) ==
    IF response.status # HTTP_OK
    THEN LET errorData == response.json
             base == <<"API request failed with status ">> \o NumberToString(response.status)
             error == IF Truthy(errorData) THEN GetProp(errorData, "error") ELSE JUndefined
             message == IF Truthy(error) THEN GetProp(error, "message") ELSE JUndefined
             errorMessage ==
                 IF Truthy(errorData) /\ Truthy(error)
                 THEN IF error.t = "string" THEN base \o <<": ">> \o error.s
                      ELSE IF Truthy(message) THEN base \o <<": ">> \o TemplateString(message)
                      ELSE base
                 ELSE base
         IN  Thrown(Err("Error", errorMessage))
    ELSE Returned(response)

\* some step of `path` from v reads a falsy value: the test
\* !v.a || !v.a[0] || !v.a[0].b ... of the adapters
RECURSIVE PathMissing(_, _)
PathMissing(v, path) ==
    IF path = <<>> THEN FALSE
    ELSE LET w == GetProp(v, Head(path))
         IN  ~Truthy(w) \/ PathMissing(w, Tail(path))

RECURSIVE ValueAt(_, _)
ValueAt(v, path) ==
    IF path = <<>> THEN v ELSE ValueAt(GetProp(v, Head(path)), Tail(path))

\* an adapter tail that returns the text as it came
ParseTitleNoTrim(data, path, formatError) ==
    IF Nullish(data)
    THEN Thrown(Err("TypeError", <<"Cannot read properties of ", data.t>>))
    ELSE IF PathMissing(data, path)
    THEN Thrown(Err("Error", formatError))
    ELSE Returned(ValueAt(data, path).s)

\* the adapters' tail: check the path, then return the trimmed text
ParseTitle(data, path, formatError) ==
    IF Nullish(data)
    THEN Thrown(Err("TypeError", <<"Cannot read properties of ", data.t>>))
    ELSE IF PathMissing(data, path)
    THEN Thrown(Err("Error", formatError))
    ELSE LET text == ValueAt(data, path)
         IN  IF text.t = "string"
             THEN Returned(Trim(text.s))
             ELSE Thrown(Err("TypeError", <<"trim is not a function">>))

AnthropicPath == <<"content", "0", "text">>
OpenAIPath == <<"choices", "0", "message", "content">>
GeminiPath == <<"candidates", "0", "content", "parts", "0", "text">>

PathOf(p) ==
    CASE p = ANTHROPIC -> AnthropicPath
      [] p = OPENAI -> OpenAIPath
      [] p = GEMINI -> GeminiPath

FormatErrorOf(p) ==
    CASE p = ANTHROPIC -> <<"Unexpected response format from Anthropic API">>
      [] p = OPENAI -> <<"Unexpected response format from OpenAI API">>
      [] p = GEMINI -> <<"Unexpected response format from Gemini API">>

callAnthropicAPI(response) ==
    LET r == makeAPIRequest(response)
    IN  IF r.threw THEN r
        ELSE ParseTitle(r.value.json, AnthropicPath, FormatErrorOf(ANTHROPIC))

callOpenAIAPI(response) ==
    LET r == makeAPIRequest(response)
    IN  IF r.threw THEN r
        ELSE ParseTitle(r.value.json, OpenAIPath, FormatErrorOf(OPENAI))

callGeminiAPI(response) ==
    LET r == makeAPIRequest(response)
    IN  IF r.threw THEN r
        ELSE ParseTitle(r.value.json, GeminiPath, FormatErrorOf(GEMINI))

AdapterLogLabel(p) ==
    CASE p = ANTHROPIC -> "Error calling Anthropic API:"
      [] p = OPENAI -> "Error calling OpenAI API:"
      [] p = GEMINI -> "Error calling Gemini API:"

\* the adapter the switch of generateTitle selected
CallAdapter(p, response) ==
    CASE p = ANTHROPIC -> callAnthropicAPI(response)
      [] p = OPENAI -> callOpenAIAPI(response)
      [] p = GEMINI -> callGeminiAPI(response)

-----------------------------------------------------------------------------
(* The new path: file.path.replace(/[^/]+$/, `${sanitizedTitle}.md`) *)

DotMd == <<".", "m", "d">>

\* the grave accent character (U+0060), which a TLA+ string cannot hold
Backtick == "U+0060"

\* where /[^/]+$/ matches in path (0: no match)
MatchStart(path) ==
    IF path = <<>> \/ path[Len(path)] = "/" THEN 0
    ELSE CHOOSE k \in 1..Len(path) :
            /\ \A j \in k..Len(path) : path[j] # "/"
            /\ k = 1 \/ path[k - 1] = "/"

\* the replacement string of String.prototype.replace, with its patterns
\* expanded: $$ a dollar, $& the match, $ and a grave accent the text before
\* it, $ and an apostrophe the text
\* after it; the regular expression has no groups, so $1.. and $<..> are literal
RECURSIVE GetSubstitution(_, _, _, _)
GetSubstitution(repl, before, matched, after) ==
    IF repl = <<>> THEN <<>>
    ELSE IF Head(repl) = "$" /\ Len(repl) >= 2 /\ repl[2] \in {"$", "&", Backtick, "'"}
         THEN (CASE repl[2] = "$" -> <<"$">>
                 [] repl[2] = "&" -> matched
                 [] repl[2] = Backtick -> before
                 [] repl[2] = "'" -> after)
              \o GetSubstitution(SubSeq(repl, 3, Len(repl)), before, matched, after)
         ELSE <<Head(repl)>> \o GetSubstitution(Tail(repl), before, matched, after)

ReplaceLastSegment(path, repl) ==
    LET k == MatchStart(path)
    IN  IF k = 0 THEN path
        ELSE LET before == SubSeq(path, 1, k - 1)
                 matched == SubSeq(path, k, Len(path))
             IN  before \o GetSubstitution(repl, before, matched, <<>>)

\* the new path of the revisions without sanitizeFileName
NewPathUnsanitized(path, title) == ReplaceLastSegment(path, title \o DotMd)

NewPath(path, title) == ReplaceLastSegment(path, sanitizeFileName(title) \o DotMd)

-----------------------------------------------------------------------------
(* The requests the adapters build *)

Placeholder == "{maxTitleLength}"

\* customPrompt.replace('{maxTitleLength}', n): the first occurrence only
RECURSIVE ReplaceFirst(_, _, _)
ReplaceFirst(s, token, repl) ==
    IF s = <<>> THEN <<>>
    ELSE IF Head(s) = token THEN repl \o Tail(s)
         ELSE <<Head(s)>> \o ReplaceFirst(Tail(s), token, repl)

Prompt(s) == ReplaceFirst(s.customPrompt, Placeholder, NumberToString(s.maxTitleLength))

AnthropicRequest(s, text) ==
    [url |-> <<"https://api.anthropic.com/v1/messages">>,
     headers |-> [contentType |-> <<"application/json">>,
                  xApiKey |-> s.anthropicApiKey,
                  anthropicVersion |-> <<"2023-06-01">>,
                  authorization |-> <<>>],
     body |-> [model |-> s.anthropicModel, prompt |-> Prompt(s), text |-> text]]

\* callOpenAIAPI sending the key of another provider
OpenAIRequestAnthropicKey(s, text) ==
    [url |-> <<"https://api.openai.com/v1/chat/completions">>,
     headers |-> [contentType |-> <<"application/json">>,
                  xApiKey |-> <<>>,
                  anthropicVersion |-> <<>>,
                  authorization |-> <<"Bearer ">> \o s.anthropicApiKey],
     body |-> [model |-> s.openaiModel, prompt |-> Prompt(s), text |-> text]]

OpenAIRequest(s, text) ==
    [url |-> <<"https://api.openai.com/v1/chat/completions">>,
     headers |-> [contentType |-> <<"application/json">>,
                  xApiKey |-> <<>>,
                  anthropicVersion |-> <<>>,
                  authorization |-> <<"Bearer ">> \o s.openaiApiKey],
     body |-> [model |-> s.openaiModel, prompt |-> Prompt(s), text |-> text]]

\* callGeminiAPI with the headers of callAnthropicAPI left in
GeminiRequestWithAnthropicHeaders(s, text) ==
    [url |-> <<"https://generativelanguage.googleapis.com/v1/models/">> \o s.geminiModel
             \o <<":generateContent?key=">> \o s.geminiApiKey,
     headers |-> [contentType |-> <<"application/json">>,
                  xApiKey |-> s.anthropicApiKey,
                  anthropicVersion |-> <<"2023-06-01">>,
                  authorization |-> <<>>],
     body |-> [model |-> <<>>, prompt |-> Prompt(s), text |-> text]]

GeminiRequest(s, text) ==
    [url |-> <<"https://generativelanguage.googleapis.com/v1/models/">> \o s.geminiModel
             \o <<":generateContent?key=">> \o s.geminiApiKey,
     headers |-> [contentType |-> <<"application/json">>,
                  xApiKey |-> <<>>,
                  anthropicVersion |-> <<>>,
                  authorization |-> <<>>],
     body |-> [model |-> <<>>, prompt |-> Prompt(s), text |-> text]]

BuildRequest(s, text) ==
    CASE s.provider = ANTHROPIC -> AnthropicRequest(s, text)
      [] s.provider = OPENAI -> OpenAIRequest(s, text)
      [] s.provider = GEMINI -> GeminiRequest(s, text)

NoRequest ==
    [url |-> <<>>,
     headers |-> [contentType |-> <<>>, xApiKey |-> <<>>, anthropicVersion |-> <<>>,
                  authorization |-> <<>>],
     body |-> [model |-> <<>>, prompt |-> <<>>, text |-> <<>>]]

NoResponse == [status |-> 0, json |-> JUndefined]

-----------------------------------------------------------------------------
(* generateTitle *)

\* what an invocation did, in order: notices shown, the request issued, the
\* response received, console output, the rename requested and completed
Ev(e, a) == [ev |-> e, arg |-> a]
Notice(message) == Ev("notice", message)

ApiKeyNotice(s) == <<"Please set your ">> \o getProviderName(s) \o <<" API key in the settings">>
NoFileNotice == <<"No file is currently open">>
GeneratingNotice == <<"Generating title...">>
SuccessNotice == <<"Title updated successfully">>
FailedPrefix == <<"Failed to generate title: ">>

\* the notice of the catch clause of generateTitle
FailedNotice(error) ==
    FailedPrefix \o (IF IsErrorInstance(error) THEN error.message ELSE <<"Unknown error">>)

IdleInv ==
    [pc |-> "idle", provider |-> "none", req |-> NoRequest, resp |-> NoResponse,
     failure |-> NoErr, title |-> <<>>, newPath |-> <<>>, log |-> <<>>]

\* the catch clause of the earlier revisions: a notice without the cause
CatchInGenerateTitleGeneric(rec, error) ==
    [rec EXCEPT !.pc = "done",
                !.failure = error,
                !.log = @ \o <<Ev("console.error", <<"Error generating title:">> \o error.message),
                               Notice(<<"Failed to generate title. Check console for details.">>)>>]

\* generateTitle without its catch clause: the error is logged by nobody and
\* rejects the promise that generateTitle returned (pc "rejected")
CatchInGenerateTitleRethrow(rec, error) ==
    [rec EXCEPT !.pc = "rejected", !.failure = error]

\* the catch clause of generateTitle; pc "done" is the promise of
\* generateTitle fulfilled
CatchInGenerateTitle(rec, error) ==
    [rec EXCEPT !.pc = "done",
                !.failure = error,
                !.log = @ \o <<Ev("console.error", <<"Error generating title:">> \o error.message),
                               Notice(FailedNotice(error))>>]

\* generateTitle without the check of view.file
GenerateTitleStartNoFileCheck(s, f, text) ==
    IF getApiKey(s) = <<>>
    THEN [IdleInv EXCEPT !.pc = "done", !.log = <<Notice(ApiKeyNotice(s))>>]
    ELSE IF s.provider \in ProviderType
    THEN LET req == BuildRequest(s, text)
         IN  [IdleInv EXCEPT !.pc = "awaitHttp",
                             !.provider = s.provider,
                             !.req = req,
                             !.log = <<Notice(GeneratingNotice), Ev("request", req.url)>>]
    ELSE CatchInGenerateTitle([IdleInv EXCEPT !.log = <<Notice(GeneratingNotice)>>],
                              Err("Error", <<"Invalid provider selected">>))

\* generateTitle from its call to the first await (the HTTP request), or to
\* its return when it stops before
GenerateTitleStart(s, f, text) ==
    IF getApiKey(s) = <<>>
    THEN [IdleInv EXCEPT !.pc = "done", !.log = <<Notice(ApiKeyNotice(s))>>]
    ELSE IF ~f.open
    THEN [IdleInv EXCEPT !.pc = "done", !.log = <<Notice(NoFileNotice)>>]
    ELSE IF s.provider \in ProviderType
    THEN LET req == BuildRequest(s, text)
         IN  [IdleInv EXCEPT !.pc = "awaitHttp",
                             !.provider = s.provider,
                             !.req = req,
                             !.log = <<Notice(GeneratingNotice), Ev("request", req.url)>>]
    ELSE CatchInGenerateTitle([IdleInv EXCEPT !.log = <<Notice(GeneratingNotice)>>],
                              Err("Error", <<"Invalid provider selected">>))

\* a generateTitle that does not await renameFile: the success notice follows
\* the rename request at once
GenerateTitleOnResponseNoAwait(rec, response, path) ==
    LET got == [rec EXCEPT !.resp = response,
                           !.log = @ \o <<Ev("response", NumberToString(response.status))>>]
        result == CallAdapter(rec.provider, response)
    IN  IF result.threw
        THEN CatchInGenerateTitle(
                 [got EXCEPT !.log = @ \o <<Ev("console.error",
                                               <<AdapterLogLabel(rec.provider)>> \o result.error.message)>>],
                 result.error)
        ELSE IF result.value # <<>>
        THEN LET newPath == NewPath(path, result.value)
             IN  [got EXCEPT !.pc = "awaitRename",
                             !.title = result.value,
                             !.newPath = newPath,
                             !.log = @ \o <<Ev("rename", newPath), Notice(SuccessNotice)>>]
        ELSE [got EXCEPT !.pc = "done"]

\* a generateTitle that refuses a title whose sanitized form is empty
GenerateTitleOnResponseRefuseEmptyName(rec, response, path) ==
    LET got == [rec EXCEPT !.resp = response,
                           !.log = @ \o <<Ev("response", NumberToString(response.status))>>]
        result == CallAdapter(rec.provider, response)
    IN  IF result.threw
        THEN CatchInGenerateTitle(
                 [got EXCEPT !.log = @ \o <<Ev("console.error",
                                               <<AdapterLogLabel(rec.provider)>> \o result.error.message)>>],
                 result.error)
        ELSE IF result.value # <<>> /\ sanitizeFileName(result.value) = <<>>
        THEN CatchInGenerateTitle(got, Err("Error", <<"Title has no usable characters">>))
        ELSE IF result.value # <<>>
        THEN LET newPath == NewPath(path, result.value)
             IN  [got EXCEPT !.pc = "awaitRename",
                             !.title = result.value,
                             !.newPath = newPath,
                             !.log = @ \o <<Ev("rename", newPath)>>]
        ELSE [got EXCEPT !.pc = "done"]

\* generateTitle from the response of the HTTP request to the second await
\* (the rename), or to its return when there is no rename
GenerateTitleOnResponse(rec, response, path) ==
    LET got == [rec EXCEPT !.resp = response,
                           !.log = @ \o <<Ev("response", NumberToString(response.status))>>]
        result == CallAdapter(rec.provider, response)
    IN  IF result.threw
        THEN CatchInGenerateTitle(
                 [got EXCEPT !.log = @ \o <<Ev("console.error",
                                               <<AdapterLogLabel(rec.provider)>> \o result.error.message)>>],
                 result.error)
        ELSE IF result.value # <<>>
        THEN LET newPath == NewPath(path, result.value)
             IN  [got EXCEPT !.pc = "awaitRename",
                             !.title = result.value,
                             !.newPath = newPath,
                             !.log = @ \o <<Ev("rename", newPath)>>]
        ELSE [got EXCEPT !.pc = "done"]

\* a generateTitle that answers a rejected request by sending it again
GenerateTitleOnRejectRetry(rec, error) ==
    [rec EXCEPT !.log = @ \o <<Ev("console.error", <<AdapterLogLabel(rec.provider)>> \o error.message),
                               Ev("request", rec.req.url)>>]

\* generateTitle when requestUrl rejects
GenerateTitleOnReject(rec, error) ==
    CatchInGenerateTitle(
        [rec EXCEPT !.log = @ \o <<Ev("console.error", <<AdapterLogLabel(rec.provider)>> \o error.message)>>],
        error)

\* generateTitle once the host has renamed the file
GenerateTitleOnRenamed(rec) ==
    [rec EXCEPT !.pc = "done", !.log = @ \o <<Ev("renamed", rec.newPath), Notice(SuccessNotice)>>]

-----------------------------------------------------------------------------
(* What the host and the providers may answer *)

\* texts a provider returns at its path
TitleTexts ==
    {<<>>,
     <<" ">>,
     <<"F", "o", "o", " ", "b", "a", "r">>,
     <<" ", "F", "o", "o", "\n">>,
     <<"a", "/", "b", ":">>,
     <<"?">>,
     <<".", ".", ".">>,
     <<"a", "$", "$", "b">>,
     <<"$", Backtick, "x">>}

\* what stands where a segment of the path is absent or empty
Leaves == {JNull, EmptyObj}

\* bodies cut off at some segment of the path
Truncated(path) == {Wrap(SubSeq(path, 1, k), leaf) : k \in 0..Len(path), leaf \in Leaves}

WellFormed(path) == {Wrap(path, JStr(text)) : text \in TitleTexts}

ErrorText == <<"r", "a", "t", "e", " ", "l", "i", "m", "i", "t", "e", "d">>

ErrorBodies ==
    {Obj1("error", JStr(ErrorText)),
     Obj1("error", Obj1("message", JStr(ErrorText))),
     Obj1("error", Obj1("message", JNull)),
     Obj1("error", EmptyObj),
     Obj1("error", JNull)}

Bodies ==
    UNION {Truncated(PathOf(p)) \cup WellFormed(PathOf(p)) : p \in ProviderType}
    \cup ErrorBodies

Statuses == {HTTP_OK, 429}

Responses == [status : Statuses, json : Bodies]

\* what a rejected requestUrl throws
RequestErrors == {Err("Error", <<"net::ERR_CONNECTION_REFUSED">>), Err("NonError", <<>>)}

\* what a rejected renameFile throws
RenameErrors == {Err("Error", <<"Destination file already exists!">>)}

Files ==
    {[open |-> FALSE, path |-> <<>>],
     [open |-> TRUE, path |-> <<"d", "/", "n", ".", "m", "d">>]}

DocTexts == {<<"note text">>}

\* the invocations of the command that can be in progress
Invs == {1}

-----------------------------------------------------------------------------
(* The plugin *)

\* loadSettings: Object.assign({}, DEFAULT_SETTINGS, await this.loadData())
loadSettings(stored) ==
    [k \in DOMAIN DEFAULT_SETTINGS |-> IF k \in DOMAIN stored THEN stored[k] ELSE DEFAULT_SETTINGS[k]]

Init ==
    /\ savedData \in StoredSettings
    /\ settings = loadSettings(savedData)
    /\ tabNotice = <<>>
    /\ file \in Files
    /\ docText \in DocTexts
    /\ inv = [i \in Invs |-> IdleInv]
    /\ started = 0
    /\ sanIn = <<>>
    /\ sanOut = <<>>

\* a command with an in-flight guard: it does not start while another
\* invocation awaits its request or its rename
InvokeGuarded(i) ==
    /\ \A j \in DOMAIN inv : inv[j].pc \notin {"awaitHttp", "awaitRename"}
    /\ inv[i].pc \in {"idle", "done"}
    /\ started < MaxInvocations
    /\ started' = started + 1
    /\ inv' = [inv EXCEPT ![i] = GenerateTitleStart(settings, file, docText)]
    /\ UNCHANGED <<settings, savedData, tabNotice, file, docText, sanVars>>

\* the command: generateTitle(view) up to its first await
Invoke(i) ==
    /\ inv[i].pc \in {"idle", "done"}
    /\ started < MaxInvocations
    /\ started' = started + 1
    /\ inv' = [inv EXCEPT ![i] = GenerateTitleStart(settings, file, docText)]
    /\ UNCHANGED <<settings, savedData, tabNotice, file, docText, sanVars>>

\* requestUrl resolves
HttpResolve(i, response) ==
    /\ inv[i].pc = "awaitHttp"
    /\ inv' = [inv EXCEPT ![i] = GenerateTitleOnResponse(inv[i], response, file.path)]
    /\ UNCHANGED <<settings, savedData, tabNotice, file, docText, started, sanVars>>

\* requestUrl rejects
HttpReject(i, error) ==
    /\ inv[i].pc = "awaitHttp"
    /\ inv' = [inv EXCEPT ![i] = GenerateTitleOnReject(inv[i], error)]
    /\ UNCHANGED <<settings, savedData, tabNotice, file, docText, started, sanVars>>

\* fileManager.renameFile resolves: the host has moved the file
RenameResolve(i) ==
    /\ inv[i].pc = "awaitRename"
    /\ file' = [file EXCEPT !.path = inv[i].newPath]
    /\ inv' = [inv EXCEPT ![i] = GenerateTitleOnRenamed(inv[i])]
    /\ UNCHANGED <<settings, savedData, tabNotice, docText, started, sanVars>>

\* fileManager.renameFile rejects
RenameReject(i, error) ==
    /\ inv[i].pc = "awaitRename"
    /\ inv' = [inv EXCEPT ![i] = CatchInGenerateTitle(inv[i], error)]
    /\ UNCHANGED <<settings, savedData, tabNotice, file, docText, started, sanVars>>

\* the provider dropdown of the settings tab
SetProvider(value) ==
    /\ settings' = [settings EXCEPT !.provider = value]
    /\ savedData' = settings'
    /\ UNCHANGED <<tabNotice, file, docText, inv, started, sanVars>>

TrimmedNotice == <<"API key trimmed. Please check for extra spaces.">>

\* the API key field of the settings tab (shown for the selected provider)
SetApiKey(value) ==
    /\ settings.provider \in ProviderType
    /\ LET trimmedValue == Trim(value)
       IN  /\ tabNotice' = IF trimmedValue # value THEN TrimmedNotice ELSE tabNotice
           /\ settings' =
                  CASE settings.provider = ANTHROPIC -> [settings EXCEPT !.anthropicApiKey = trimmedValue]
                    [] settings.provider = OPENAI -> [settings EXCEPT !.openaiApiKey = trimmedValue]
                    [] settings.provider = GEMINI -> [settings EXCEPT !.geminiApiKey = trimmedValue]
    /\ savedData' = settings'
    /\ UNCHANGED <<file, docText, inv, started, sanVars>>

\* the options of the model dropdown shown for provider p
ModelOptions(p) ==
    CASE p = ANTHROPIC -> {<<"claude-3-7-sonnet-latest">>, <<"claude-3-5-haiku-latest">>,
                           <<"claude-3-opus-latest">>}
      [] p = OPENAI -> {<<"gpt-4o">>, <<"gpt-4-turbo">>, <<"gpt-3.5-turbo">>}
      [] p = GEMINI -> {<<"gemini-1.5-pro">>, <<"gemini-1.5-flash">>}
      [] OTHER -> {}

\* the model dropdown of the settings tab (shown for the selected provider)
SetModel(value) ==
    /\ settings.provider \in ProviderType
    /\ settings' =
           CASE settings.provider = ANTHROPIC -> [settings EXCEPT !.anthropicModel = value]
             [] settings.provider = OPENAI -> [settings EXCEPT !.openaiModel = value]
             [] settings.provider = GEMINI -> [settings EXCEPT !.geminiModel = value]
    /\ savedData' = settings'
    /\ UNCHANGED <<tabNotice, file, docText, inv, started, sanVars>>

InvalidNumberNotice == <<"Please enter a valid number for max title length">>
RangeNotice == <<"Title length should be between 10 and 500 characters">>

\* the 'Max Title Length' field of the settings tab
SetMaxTitleLength(value) ==
    LET numValue == parseInt(value)
    IN  /\ IF isNaN(numValue)
           THEN /\ tabNotice' = InvalidNumberNotice
                /\ UNCHANGED <<settings, savedData>>
           ELSE IF numValue.n < 10 \/ numValue.n > 500
           THEN /\ tabNotice' = RangeNotice
                /\ UNCHANGED <<settings, savedData>>
           ELSE /\ settings' = [settings EXCEPT !.maxTitleLength = numValue.n]
                /\ savedData' = settings'
                /\ UNCHANGED tabNotice
        /\ UNCHANGED <<file, docText, inv, started, sanVars>>

\* the 'Customize Prompt' text area of the settings tab
SetCustomPrompt(value) ==
    /\ settings' = [settings EXCEPT !.customPrompt = value]
    /\ savedData' = settings'
    /\ UNCHANGED <<tabNotice, file, docText, inv, started, sanVars>>

\* a reset button that sets the prompt and leaves the data file as it was
ResetPromptNoSave ==
    /\ settings' = [settings EXCEPT !.customPrompt = DEFAULT_SETTINGS.customPrompt]
    /\ UNCHANGED <<savedData, tabNotice, file, docText, inv, started, sanVars>>

\* the 'Reset to default prompt' button of the settings tab
ResetPrompt ==
    /\ settings' = [settings EXCEPT !.customPrompt = DEFAULT_SETTINGS.customPrompt]
    /\ savedData' = settings'
    /\ UNCHANGED <<tabNotice, file, docText, inv, started, sanVars>>

Next ==
    \/ \E i \in Invs : Invoke(i)
    \/ \E i \in Invs, response \in Responses : HttpResolve(i, response)
    \/ \E i \in Invs, error \in RequestErrors : HttpReject(i, error)
    \/ \E i \in Invs : RenameResolve(i)
    \/ \E i \in Invs, error \in RenameErrors : RenameReject(i, error)
    \/ \E value \in ProviderType : SetProvider(value)
    \/ \E value \in TypedKeys(settings.provider) : SetApiKey(value)

Spec == Init /\ [][Next]_vars


-----------------------------------------------------------------------------
(* Specification of sanitizeFileName as a function of its argument *)

SanAlphabet == IllegalChars \cup {".", " ", "a"}

SanInit ==
    /\ sanIn \in StringsUpTo(SanAlphabet, MaxSanLen)
    /\ sanOut = <<>>
    /\ savedData = DEFAULT_SETTINGS
    /\ settings = DEFAULT_SETTINGS
    /\ tabNotice = <<>>
    /\ file = [open |-> FALSE, path |-> <<>>]
    /\ docText = <<>>
    /\ inv = [i \in Invs |-> IdleInv]
    /\ started = 0

\* sanitizeFileName(x), then sanitizeFileName(sanitizeFileName(x))
ApplySanitize ==
    /\ Len(sanOut) < 2
    /\ sanOut' = Append(sanOut,
                        sanitizeFileName(IF sanOut = <<>> THEN sanIn ELSE sanOut[Len(sanOut)]))
    /\ UNCHANGED <<sanIn, pluginVars>>

SanNext == ApplySanitize

SanSpec == SanInit /\ [][SanNext]_vars

-----------------------------------------------------------------------------
(* Specification of the 'Max Title Length' field: any text typed into it,
   starting from the default length *)

MaxFieldLen == 3

LengthChars == {"0", "1", "5", "a", "x", "-", " "}
LengthInputs == StringsUpTo(LengthChars, MaxFieldLen)

LengthNext == \E value \in LengthInputs : SetMaxTitleLength(value)

LengthSpec == Init /\ [][LengthNext]_vars

-----------------------------------------------------------------------------
(* Specification of the settings tab: every handler that changes a field *)

\* what is typed into the 'Max Title Length' field and the prompt text area
TabLengthInputs == {<<"1", "5">>, <<"5", "0", "0">>, <<"5">>, <<"a">>}
TabPrompts == {<<Placeholder>>, <<"Title, at most ", Placeholder, " characters">>}

SettingsNext ==
    \/ \E value \in ProviderType : SetProvider(value)
    \/ \E value \in TypedKeys(settings.provider) : SetApiKey(value)
    \/ \E value \in ModelOptions(settings.provider) : SetModel(value)
    \/ \E value \in TabLengthInputs : SetMaxTitleLength(value)
    \/ \E value \in TabPrompts : SetCustomPrompt(value)
    \/ ResetPrompt

SettingsSpec == Init /\ [][SettingsNext]_vars

-----------------------------------------------------------------------------
(* Specification of the prompt of a request, for the prompt templates and
   lengths that the settings can hold *)

MaxPromptLen == 2

\* a template is a sequence of pieces: the placeholder and other text
PromptPieces == {Placeholder, "Title: ", " characters"}
PromptTemplates == StringsUpTo(PromptPieces, MaxPromptLen) \cup {DEFAULT_SETTINGS.customPrompt}
PromptLengths == {10, DEFAULT_MAX_TITLE_LENGTH, 500}

PromptInit ==
    /\ \E p \in ProviderType, template \in PromptTemplates, length \in PromptLengths :
          settings = [loadSettings([provider |-> p,
                                    anthropicApiKey |-> KeyOf[ANTHROPIC],
                                    openaiApiKey |-> KeyOf[OPENAI],
                                    geminiApiKey |-> KeyOf[GEMINI]])
                         EXCEPT !.customPrompt = template, !.maxTitleLength = length]
    /\ savedData = settings
    /\ tabNotice = <<>>
    /\ file \in {f \in Files : f.open}
    /\ docText \in DocTexts
    /\ inv = [i \in Invs |-> IdleInv]
    /\ started = 0
    /\ sanIn = <<>>
    /\ sanOut = <<>>

PromptNext ==
    \/ \E i \in Invs : Invoke(i)
    \/ \E i \in Invs, error \in RequestErrors : HttpReject(i, error)

PromptSpec == PromptInit /\ [][PromptNext]_vars

-----------------------------------------------------------------------------
(* Specification of two invocations of the command in progress at once, on
   the one open document *)

ConcInvs == {1, 2}

ConcTitles == {<<"F", "o", "o", " ", "b", "a", "r">>, <<" ", "F", "o", "o", "\n">>}

ConcResponses ==
    {[status |-> HTTP_OK, json |-> Wrap(PathOf(p), JStr(text))] : p \in ProviderType, text \in ConcTitles}
    \cup {[status |-> 429, json |-> Obj1("error", JStr(ErrorText))]}

ConcInit ==
    /\ savedData \in StoredSettings
    /\ settings = loadSettings(savedData)
    /\ tabNotice = <<>>
    /\ file \in Files
    /\ docText \in DocTexts
    /\ inv = [i \in ConcInvs |-> IdleInv]
    /\ started = 0
    /\ sanIn = <<>>
    /\ sanOut = <<>>

ConcNext ==
    \/ \E i \in ConcInvs : Invoke(i)
    \/ \E i \in ConcInvs, response \in ConcResponses : HttpResolve(i, response)
    \/ \E i \in ConcInvs, error \in RequestErrors : HttpReject(i, error)
    \/ \E i \in ConcInvs : RenameResolve(i)
    \/ \E i \in ConcInvs, error \in RenameErrors : RenameReject(i, error)

ConcSpec == ConcInit /\ [][ConcNext]_vars

-----------------------------------------------------------------------------
(* Claims about sanitizeFileName *)

HasIllegal(s) == \E k \in 1..Len(s) : s[k] \in IllegalChars

HasDotDot(s) == Contains(s, <<".", ".">>)

\* C1: the result of sanitizeFileName contains none of \ / : * ? " < > |
C1_NoIllegalChars ==
    sanOut # <<>> => ~HasIllegal(sanOut[1])

C1_Witness ==
    /\ sanOut # <<>>
    /\ HasIllegal(sanIn)
    /\ sanOut[1] # <<>>

\* C2: the result of sanitizeFileName contains no ".." (every run of dots
\* is collapsed to a single dot)
C2_NoDotDot ==
    sanOut # <<>> => ~HasDotDot(sanOut[1])

\* C3: sanitizeFileName is idempotent: a second application changes nothing
C3_Idempotent ==
    Len(sanOut) = 2 => sanOut[2] = sanOut[1]

-----------------------------------------------------------------------------
(* Claims about generateTitle and the adapters *)

EventsOf(log, e) == {k \in 1..Len(log) : log[k].ev = e}
HasEvent(log, e) == EventsOf(log, e) # {}
NoticesOf(log) == {log[k].arg : k \in EventsOf(log, "notice")}

\* the step starts invocation i
Invoked(i) == started' = started + 1 /\ inv'[i] # inv[i]

\* the step moves invocation i
Moved(i) == inv'[i] # inv[i]

\* the API key of the selected provider is empty (an unrecognised provider has none)
SelectedKeyEmpty ==
    \/ settings.provider = ANTHROPIC /\ settings.anthropicApiKey = <<>>
    \/ settings.provider = OPENAI /\ settings.openaiApiKey = <<>>
    \/ settings.provider = GEMINI /\ settings.geminiApiKey = <<>>
    \/ settings.provider \notin ProviderType

ProviderLabel ==
    CASE settings.provider = ANTHROPIC -> "Anthropic"
      [] settings.provider = OPENAI -> "OpenAI"
      [] settings.provider = GEMINI -> "Google Gemini"
      [] OTHER -> "AI Provider"

\* C4: an invocation made while the selected provider's API key is empty ends
\* at once: it issues no HTTP request, requests no rename, and shows exactly
\* the notice asking for that provider's API key
C4_NoCallWithoutKey ==
    [][\A i \in Invs :
          (Invoked(i) /\ SelectedKeyEmpty) =>
              /\ inv'[i].pc = "done"
              /\ ~HasEvent(inv'[i].log, "request")
              /\ ~HasEvent(inv'[i].log, "rename")
              /\ inv'[i].log =
                     <<Notice(<<"Please set your ", ProviderLabel, " API key in the settings">>)>>]_vars

KeyNoticeShown(i) ==
    /\ inv[i].pc = "done"
    /\ Len(inv[i].log) = 1
    /\ inv[i].log[1].arg[1] = "Please set your "

C4_Witness ==
    \E i \in Invs :
        /\ KeyNoticeShown(i)
        /\ settings.provider = GEMINI
        /\ settings.geminiApiKey = <<>>
        /\ settings.anthropicApiKey # <<>>
        /\ file.open

\* the provider's text in an error envelope: `error` as a string, or `error.message`
EnvelopeText(json) ==
    IF json.t = "object" /\ "error" \in DOMAIN json.f
    THEN LET e == json.f["error"]
         IN  IF e.t = "string" THEN e.s
             ELSE IF e.t = "object" /\ "message" \in DOMAIN e.f /\ e.f["message"].t = "string"
                  THEN e.f["message"].s
                  ELSE <<>>
    ELSE <<>>

Received(i) == HasEvent(inv[i].log, "response")

LastNotice(i) == inv[i].log[Len(inv[i].log)]

\* C5: a response with a status other than 200 makes the invocation fail
\* with an Error whose message holds the status code and the provider's error
\* text, and the failure notice holds that message
C5_StatusAndTextSurfaced ==
    \A i \in Invs :
        (Received(i) /\ inv[i].resp.status # 200) =>
            /\ inv[i].pc = "done"
            /\ inv[i].failure.name = "Error"
            /\ Contains(inv[i].failure.message, NumberToString(inv[i].resp.status))
            /\ Contains(inv[i].failure.message, EnvelopeText(inv[i].resp.json))
            /\ LastNotice(i).ev = "notice"
            /\ Contains(LastNotice(i).arg, inv[i].failure.message)
            /\ ~HasEvent(inv[i].log, "rename")

C5_Witness ==
    \E i \in Invs :
        /\ Received(i)
        /\ inv[i].resp = [status |-> 429, json |-> Obj1("error", Obj1("message", JStr(ErrorText)))]
        /\ Contains(LastNotice(i).arg, <<"4", "2", "9">>)
        /\ Contains(LastNotice(i).arg, ErrorText)

\* walking `path` from v meets a value that is absent or null (v included)
RECURSIVE SegmentMissing(_, _)
SegmentMissing(v, path) ==
    \/ Nullish(v)
    \/ /\ path # <<>>
       /\ SegmentMissing(GetProp(v, Head(path)), Tail(path))

FormatErrorLabel(p) ==
    CASE p = ANTHROPIC -> "Unexpected response format from Anthropic API"
      [] p = OPENAI -> "Unexpected response format from OpenAI API"
      [] p = GEMINI -> "Unexpected response format from Gemini API"

\* C6: a status-200 response that lacks a segment of the provider's path
\* (a null body included) fails with the adapter's 'Unexpected response
\* format' error, never with a TypeError
C6_MissingSegmentIsFormatError ==
    \A i \in Invs :
        (Received(i) /\ inv[i].resp.status = 200
            /\ SegmentMissing(inv[i].resp.json, PathOf(inv[i].provider))) =>
            /\ inv[i].pc = "done"
            /\ inv[i].failure = Err("Error", <<FormatErrorLabel(inv[i].provider)>>)

\* the same for bodies that are not null or undefined: what the code guarantees
MissingSegmentOfNonNullBody ==
    \A i \in Invs :
        (Received(i) /\ inv[i].resp.status = 200 /\ ~Nullish(inv[i].resp.json)
            /\ SegmentMissing(inv[i].resp.json, PathOf(inv[i].provider))) =>
            /\ inv[i].pc = "done"
            /\ inv[i].failure = Err("Error", <<FormatErrorLabel(inv[i].provider)>>)

\* the response is well formed for the provider: a non-empty string at its path
WellFormedFor(p, json) ==
    /\ ~SegmentMissing(json, PathOf(p))
    /\ ValueAt(json, PathOf(p)).t = "string"
    /\ ValueAt(json, PathOf(p)).s # <<>>

IsBlank(s) == \A k \in 1..Len(s) : s[k] \in WhiteSpace

\* t is s without the white space at its two ends
IsTrimOf(t, s) ==
    /\ t = <<>> \/ (t[1] \notin WhiteSpace /\ t[Len(t)] \notin WhiteSpace)
    /\ \E j \in 0..Len(s) :
          /\ j + Len(t) <= Len(s)
          /\ SubSeq(s, j + 1, j + Len(t)) = t
          /\ IsBlank(SubSeq(s, 1, j))
          /\ IsBlank(SubSeq(s, j + Len(t) + 1, Len(s)))

\* C7: on a well-formed status-200 response the adapter does not fail, and
\* what it returns is the text at the provider's path without the white space
\* at its ends
C7_ReturnsTrimmedText ==
    \A i \in Invs :
        (Received(i) /\ inv[i].resp.status = 200
            /\ WellFormedFor(inv[i].provider, inv[i].resp.json)) =>
            /\ inv[i].failure.name # "TypeError"
            /\ HasEvent(inv[i].log, "rename") \/ inv[i].failure = NoErr
            /\ IsTrimOf(inv[i].title, ValueAt(inv[i].resp.json, PathOf(inv[i].provider)).s)

C7_Witness ==
    \E i \in Invs :
        /\ Received(i)
        /\ inv[i].provider = ANTHROPIC
        /\ inv[i].resp = [status |-> 200,
                          json |-> Wrap(AnthropicPath, JStr(<<" ", "F", "o", "o", "\n">>))]
        /\ inv[i].title = <<"F", "o", "o">>

\* C8 (state part): an invocation requests at most one rename, after its
\* response, for a title the adapter returned; a success notice means exactly
\* one rename, requested and completed before it
C8_RenameShape(i) ==
    LET log == inv[i].log
    IN  /\ Cardinality(EventsOf(log, "rename")) <= 1
        /\ \A k \in EventsOf(log, "rename") :
              /\ \E j \in EventsOf(log, "response") : j < k
              /\ inv[i].title # <<>>
              /\ inv[i].failure = NoErr \/ inv[i].pc = "done"
              /\ log[k].arg = inv[i].newPath
        /\ SuccessNotice \in NoticesOf(log) =>
              /\ Cardinality(EventsOf(log, "rename")) = 1
              /\ inv[i].pc = "done"
              /\ inv[i].failure = NoErr

\* the last segment of path is repl (a replacement string without $ is taken literally)
RenamesTo(path, target, name) ==
    \E k \in 0..Len(path) :
        /\ k = 0 \/ path[k] = "/"
        /\ \A j \in (k + 1)..Len(path) : path[j] # "/"
        /\ target = SubSeq(path, 1, k) \o name

\* C8: the rename is requested at most once per invocation, only in the step
\* that received the response and got a title from the adapter, and with the
\* sanitized title; a successful invocation requested it exactly once
C8_RenameOnceAfterTitle ==
    /\ [](\A i \in Invs : C8_RenameShape(i))
    /\ [][\A i \in Invs :
             (HasEvent(inv'[i].log, "rename") /\ ~HasEvent(inv[i].log, "rename")) =>
                 /\ inv[i].pc = "awaitHttp"
                 /\ inv'[i].resp.status = 200
                 /\ WellFormedFor(inv'[i].provider, inv'[i].resp.json)
                 /\ "$" \notin {inv'[i].title[k] : k \in 1..Len(inv'[i].title)} =>
                        RenamesTo(file.path, inv'[i].newPath,
                                  sanitizeFileName(inv'[i].title) \o DotMd)]_vars

C8_Witness ==
    \E i \in Invs :
        /\ inv[i].pc = "done"
        /\ SuccessNotice \in NoticesOf(inv[i].log)
        /\ inv[i].title = <<"a", "/", "b", ":">>
        /\ file.path = <<"d", "/", "a", "b", ".", "m", "d">>

\* invocation i failed at the API-key check, at the no-file check or in the adapter
FailedEarly(i) ==
    /\ inv[i].pc = "done"
    /\ \/ KeyNoticeShown(i)
       \/ inv[i].log = <<Notice(NoFileNotice)>>
       \/ inv[i].failure # NoErr /\ ~HasEvent(inv[i].log, "rename")

\* the cause of a failure, as a person reads it
CauseOf(i) ==
    IF inv[i].failure = NoErr THEN LastNotice(i).arg
    ELSE IF inv[i].failure.name \in {"Error", "TypeError"} THEN inv[i].failure.message
    ELSE <<"Unknown error">>

\* C9: an invocation that fails at the API-key check, at the no-file check
\* or in the adapter ends with a notice that holds the cause, has requested no
\* rename, and none of its steps changes the file's path (only a step that
\* completes a rename does); no step writes the document text
C9_FailureLeavesFileAlone ==
    /\ [](\A i \in Invs :
             FailedEarly(i) =>
                 /\ LastNotice(i).ev = "notice"
                 /\ CauseOf(i) # <<>>
                 /\ Contains(LastNotice(i).arg, CauseOf(i))
                 /\ ~HasEvent(inv[i].log, "rename")
                 /\ ~HasEvent(inv[i].log, "renamed"))
    /\ [][/\ docText' = docText
          /\ \A i \in Invs :
                (Moved(i) /\ ~HasEvent(inv'[i].log, "renamed")) => file' = file]_vars

C9_Witness ==
    \E i \in Invs :
        /\ FailedEarly(i)
        /\ inv[i].failure = Err("Error", <<FormatErrorLabel(OPENAI)>>)
        /\ file.path = <<"d", "/", "n", ".", "m", "d">>

\* the directory of path: everything up to its last slash
DirOf(path) ==
    LET slashes == {k \in 1..Len(path) : path[k] = "/"}
    IN  IF slashes = {} THEN <<>>
        ELSE SubSeq(path, 1, CHOOSE k \in slashes : \A j \in slashes : j <= k)

\* C10: the path handed to the host rename is the file's directory followed
\* by the sanitized title and ".md"
C10_NewPathIsDirTitleMd ==
    \A i \in Invs :
        inv[i].pc = "awaitRename" =>
            inv[i].newPath = DirOf(file.path) \o sanitizeFileName(inv[i].title) \o DotMd

HasNotice(log, message) == \E k \in DOMAIN log : log[k] = Notice(message)

StartsWith(s, prefix) ==
    Len(s) >= Len(prefix) /\ SubSeq(s, 1, Len(prefix)) = prefix

\* the failure notifications of a log
FailureNotices(log) ==
    {k \in DOMAIN log : log[k].ev = "notice" /\ StartsWith(log[k].arg, FailedPrefix)}

ReachedGenerating(i) == HasNotice(inv[i].log, GeneratingNotice)
HasReturned(i) == inv[i].pc = "done"

\* C11: an invocation that has shown 'Generating title...' and has returned
\* has shown exactly one of the success notification and a failure
\* notification, whatever the provider answered.
C11_GeneratingEndsInSuccessOrFailed ==
    \A i \in Invs :
        (ReachedGenerating(i) /\ HasReturned(i)) =>
            (HasNotice(inv[i].log, SuccessNotice) <=> FailureNotices(inv[i].log) = {})

\* the same for the invocations whose provider text was not blank: these do
\* end in exactly one of the two
C11_NonBlankEndsInSuccessOrFailed ==
    \A i \in Invs :
        (ReachedGenerating(i) /\ HasReturned(i)
            /\ ~(inv[i].resp.status = HTTP_OK /\ WellFormedFor(inv[i].provider, inv[i].resp.json)
                 /\ IsBlank(ValueAt(inv[i].resp.json, PathOf(inv[i].provider)).s))) =>
            (HasNotice(inv[i].log, SuccessNotice) <=> FailureNotices(inv[i].log) = {})


Finished(i) == inv[i].pc \notin {"idle", "awaitHttp", "awaitRename"}

\* an error was raised in invocation i after 'Generating title...': no
\* adapter for the provider, the HTTP call rejected, a status other than 200,
\* a response without the title text, or the rename failed
ErrorRaised(i) ==
    /\ ReachedGenerating(i) \/ inv[i].failure # NoErr
    /\ Finished(i)
    /\ \/ ~HasEvent(inv[i].log, "request")
       \/ ~Received(i)
       \/ inv[i].resp.status # HTTP_OK
       \/ ~WellFormedFor(inv[i].provider, inv[i].resp.json)
       \/ HasEvent(inv[i].log, "rename") /\ ~HasEvent(inv[i].log, "renamed")

\* the error of invocation i was written to the console before its notice
LoggedBeforeNotice(i) ==
    \E k \in EventsOf(inv[i].log, "console.error") :
        /\ inv[i].log[k].arg = <<"Error generating title:">> \o inv[i].failure.message
        /\ \A n \in FailureNotices(inv[i].log) : k < n

\* C12: the promise of generateTitle never rejects, and an invocation in
\* which an error was raised has returned with the error logged and exactly
\* one failure notification, and without the success notification.
C12_ErrorsCaughtLoggedSurfacedOnce ==
    \A i \in Invs :
        /\ inv[i].pc # "rejected"
        /\ (inv[i].failure # NoErr) => ErrorRaised(i)
        /\ ErrorRaised(i) =>
              /\ inv[i].pc = "done"
              /\ inv[i].failure # NoErr
              /\ Cardinality(FailureNotices(inv[i].log)) = 1
              /\ LoggedBeforeNotice(i)
              /\ ~HasNotice(inv[i].log, SuccessNotice)

\* the host refused the rename and the invocation returned with its notice
C12_Witness ==
    \E i \in Invs :
        /\ inv[i].pc = "done"
        /\ HasEvent(inv[i].log, "rename")
        /\ inv[i].failure \in RenameErrors
        /\ LastNotice(i) = Notice(FailedNotice(inv[i].failure))


\* the API key of the selected provider ('' when the provider is unrecognised)
SelectedKey ==
    CASE settings.provider = ANTHROPIC -> settings.anthropicApiKey
      [] settings.provider = OPENAI -> settings.openaiApiKey
      [] settings.provider = GEMINI -> settings.geminiApiKey
      [] OTHER -> <<>>

\* the provider whose endpoint a request goes to
EndpointOwner(req) ==
    CASE req.url[1] = "https://api.anthropic.com/v1/messages" -> ANTHROPIC
      [] req.url[1] = "https://api.openai.com/v1/chat/completions" -> OPENAI
      [] req.url[1] = "https://generativelanguage.googleapis.com/v1/models/" -> GEMINI
      [] OTHER -> "none"

\* request req carries key as the credential of provider p, in the place
\* where p expects it, and no credential anywhere else
CarriesOnlyKeyOf(req, p, key) ==
    /\ req.headers.xApiKey = (IF p = ANTHROPIC THEN key ELSE <<>>)
    /\ req.headers.authorization = (IF p = OPENAI THEN <<"Bearer ">> \o key ELSE <<>>)
    /\ IF p = GEMINI
       THEN \E k \in DOMAIN req.url :
               /\ req.url[k] = ":generateContent?key="
               /\ SubSeq(req.url, k + 1, Len(req.url)) = key
       ELSE Len(req.url) = 1

\* C13: an invocation that issues a request was started with a recognised
\* provider selected; the adapter it runs, the endpoint it calls and the only
\* API key in its request are those of that provider, and that key is the
\* non-empty one that was checked.  An unrecognised provider issues no request.
C13_OneProviderPerGeneration ==
    [][\A i \in Invs :
          (Invoked(i) /\ HasEvent(inv'[i].log, "request")) =>
              /\ settings.provider \in ProviderType
              /\ SelectedKey # <<>>
              /\ inv'[i].provider = settings.provider
              /\ EndpointOwner(inv'[i].req) = settings.provider
              /\ CarriesOnlyKeyOf(inv'[i].req, settings.provider, SelectedKey)
              /\ inv'[i].log[Len(inv'[i].log)] = Ev("request", inv'[i].req.url)]_vars

\* a request to OpenAI is in flight while the keys of all three providers are set
C13_Witness ==
    \E i \in Invs :
        /\ inv[i].pc = "awaitHttp"
        /\ inv[i].provider = OPENAI
        /\ inv[i].req.headers.authorization = <<"Bearer ">> \o KeyOf[OPENAI]
        /\ settings.anthropicApiKey # <<>>
        /\ settings.geminiApiKey # <<>>


\* C16: the log of an invocation holds at most one HTTP request, and a step
\* adds a request to the log only when it starts the invocation (the user
\* ran the command): no step taken on a response, a rejection or a rename
\* outcome issues one.
C16_AtMostOneRequest ==
    [][\A i \in Invs :
          /\ Cardinality(EventsOf(inv'[i].log, "request")) <= 1
          /\ (Moved(i) /\ ~Invoked(i)) =>
                /\ EventsOf(inv'[i].log, "request") = EventsOf(inv[i].log, "request")
                /\ inv'[i].req = inv[i].req]_vars

\* an invocation has failed on a status other than 200 and its log holds the
\* one request it issued
C16_Witness ==
    \E i \in Invs :
        /\ inv[i].pc = "done"
        /\ inv[i].failure # NoErr
        /\ inv[i].resp.status # HTTP_OK
        /\ Received(i)
        /\ Cardinality(EventsOf(inv[i].log, "request")) = 1


\* C17: an invocation started with a non-empty key for the selected provider
\* and no file in the view returns at once: its log is the one notice 'No file
\* is currently open' (no 'Generating title...', no request, no rename), it
\* raises no error, and no file is touched.
C17_NoFileStops ==
    [][\A i \in Invs :
          (Invoked(i) /\ ~SelectedKeyEmpty /\ ~file.open) =>
              /\ inv'[i].pc = "done"
              /\ inv'[i].log = <<Notice(<<"No file is currently open">>)>>
              /\ inv'[i].failure = NoErr
              /\ inv'[i].req = NoRequest
              /\ file' = file]_vars

\* an invocation with a key set and no file has returned
C17_Witness ==
    \E i \in Invs :
        /\ inv[i].pc = "done"
        /\ ~SelectedKeyEmpty
        /\ ~file.open
        /\ NoticesOf(inv[i].log) = {NoFileNotice}


\* the positions of a notice in a log
NoticeAt(log, message) == {k \in DOMAIN log : log[k] = Notice(message)}

\* every event at a position of later follows an event at a position of earlier
Precedes(earlier, later) == \A b \in later : \E a \in earlier : a < b

\* the events of invocation i are in the order of generateTitle
Ordered(i) ==
    LET log == inv[i].log
        success == NoticeAt(log, SuccessNotice)
    IN  /\ Precedes(NoticeAt(log, GeneratingNotice), EventsOf(log, "request"))
        /\ Precedes(EventsOf(log, "request"), EventsOf(log, "response"))
        /\ Precedes(EventsOf(log, "response"), EventsOf(log, "rename"))
        /\ Precedes(EventsOf(log, "rename"), EventsOf(log, "renamed"))
        /\ Precedes(EventsOf(log, "renamed"), success)
        /\ success # {} =>
              /\ inv[i].failure = NoErr
              /\ Cardinality(success) = 1
              /\ LastNotice(i) = Notice(SuccessNotice)

\* C20: in every invocation 'Generating title...' comes before the request,
\* the rename request after the response, and the success notification after
\* the rename has completed; the step that shows the success notification
\* is the one in which the awaited rename resolved, with the file at the new
\* path, so an invocation whose rename failed or was never requested shows none.
C20_EventsOrdered ==
    [][\A i \in Invs :
          /\ Ordered(i)'
          /\ (HasNotice(inv'[i].log, SuccessNotice) /\ ~HasNotice(inv[i].log, SuccessNotice)) =>
                /\ inv[i].pc = "awaitRename"
                /\ inv'[i].pc = "done"
                /\ file'.path = inv[i].newPath]_vars

\* an invocation went through all of it and has shown the success notification
C20_Witness ==
    \E i \in Invs :
        /\ inv[i].pc = "done"
        /\ HasNotice(inv[i].log, SuccessNotice)
        /\ Len(inv[i].log) = 6
        /\ file.path = inv[i].newPath


-----------------------------------------------------------------------------
(* Claims about the settings tab *)

IsDecimal(s) == s # <<>> /\ \A k \in DOMAIN s : \E d \in DOMAIN DigitChars : DigitChars[d] = s[k]

\* the text s is the decimal numeral of n, leading zeros allowed
Denotes(s, n) ==
    /\ IsDecimal(s)
    /\ \E z \in 0..(Len(s) - 1) :
          /\ \A k \in 1..z : s[k] = "0"
          /\ SubSeq(s, z + 1, Len(s)) = NumberToString(n)

\* the text typed is a number from 10 to 500, white space around it allowed
NumberInRange(s) == \E n \in 10..500 : Denotes(Trim(s), n)

LengthInRange == settings.maxTitleLength \in 10..500

\* C14: settings.maxTitleLength is an integer from 10 to 500 after every edit
\* of the 'Max Title Length' field, and an edit whose text is not a number
\* from 10 to 500 changes neither the settings nor the data file.
C14_LengthInRangeAndBadInputIgnored ==
    [][/\ LengthInRange'
       /\ \A value \in LengthInputs :
             (SetMaxTitleLength(value) /\ ~NumberInRange(value)) =>
                 (settings' = settings /\ savedData' = savedData)]_vars

\* the first half alone: the stored length stays in 10..500
C14_LengthInRange == LengthInRange

\* the second half for the edits that the handler rejects with one of its
\* two notices: they change neither the settings nor the data file
C14_RejectedInputIgnored ==
    [][(tabNotice' # tabNotice /\ tabNotice' \in {InvalidNumberNotice, RangeNotice}) =>
          (settings' = settings /\ savedData' = savedData)]_vars


\* C15: a step of the settings tab that changes a field of the settings, or
\* writes the data file, leaves the data file equal to the settings in memory.
C15_SavedOnEveryChange ==
    [][(settings' # settings \/ savedData' # savedData) => savedData' = settings']_vars

\* the provider, a key, a model, the length and the prompt have all been
\* changed, and the data file holds them
C15_Witness ==
    /\ savedData = settings
    /\ settings.provider = GEMINI
    /\ settings.geminiApiKey # <<>>
    /\ settings.geminiModel # DEFAULT_SETTINGS.geminiModel
    /\ settings.maxTitleLength # DEFAULT_SETTINGS.maxTitleLength
    /\ settings.customPrompt # DEFAULT_SETTINGS.customPrompt


-----------------------------------------------------------------------------
(* Claims about the prompt *)

\* template with every placeholder replaced by text
RECURSIVE Substituted(_, _)
Substituted(template, text) ==
    IF template = <<>> THEN <<>>
    ELSE (IF Head(template) = "{maxTitleLength}" THEN text ELSE <<Head(template)>>)
             \o Substituted(Tail(template), text)

HasPlaceholder(s) == \E k \in DOMAIN s : s[k] = "{maxTitleLength}"
PlaceholderCount(s) == Cardinality({k \in DOMAIN s : s[k] = "{maxTitleLength}"})

\* C18: the prompt of a request is the prompt template of the settings with
\* the placeholder replaced by the decimal digits of settings.maxTitleLength,
\* and holds no placeholder.
C18_PromptHasNoPlaceholder ==
    [][\A i \in Invs :
          (Invoked(i) /\ HasEvent(inv'[i].log, "request")) =>
              /\ inv'[i].req.body.prompt =
                     Substituted(settings.customPrompt, NumberToString(settings.maxTitleLength))
              /\ ~HasPlaceholder(inv'[i].req.body.prompt)]_vars

\* the same for the templates that hold the placeholder at most once
C18_SinglePlaceholderReplaced ==
    [][\A i \in Invs :
          (Invoked(i) /\ HasEvent(inv'[i].log, "request")
              /\ PlaceholderCount(settings.customPrompt) <= 1) =>
              /\ inv'[i].req.body.prompt =
                     Substituted(settings.customPrompt, NumberToString(settings.maxTitleLength))
              /\ ~HasPlaceholder(inv'[i].req.body.prompt)]_vars


-----------------------------------------------------------------------------
(* Claims about invocations in progress at once *)

\* C19: while an invocation awaits its HTTP response, the command can be run
\* again, and the invocation it starts behaves as if it were alone: with a
\* key set and a file open it issues its own request, and the first
\* invocation is left as it was.
C19_SecondInvocationUnguarded ==
    [][\A i, j \in ConcInvs :
          (i # j /\ inv[i].pc = "awaitHttp" /\ inv[j].pc \in {"idle", "done"}) =>
              /\ started < MaxInvocations => ENABLED Invoke(j)
              /\ Invoked(j) =>
                    /\ inv'[j] = GenerateTitleStart(settings, file, docText)
                    /\ inv'[i] = inv[i]
                    /\ (~SelectedKeyEmpty /\ file.open) =>
                          /\ inv'[j].pc = "awaitHttp"
                          /\ inv'[j].log[Len(inv'[j].log)] = Ev("request", inv'[j].req.url)]_vars

\* both invocations have issued their request and have asked the host to
\* rename the one open file, and neither rename has been answered
C19_Witness ==
    /\ file.open
    /\ \A i \in ConcInvs :
          /\ inv[i].pc = "awaitRename"
          /\ Cardinality(EventsOf(inv[i].log, "request")) = 1
          /\ HasEvent(inv[i].log, "rename")
          /\ ~HasEvent(inv[i].log, "renamed")


-----------------------------------------------------------------------------
(* Claims about what a request discloses *)

\* values an API key field can hold besides the user's own key of that provider
OtherKeyValues == {<<>>, <<"Z">>}

\* the settings records that differ from s at most in the API keys of the
\* providers that are not selected
SameButOtherKeys(s) ==
    {[s EXCEPT !.anthropicApiKey = a, !.openaiApiKey = o, !.geminiApiKey = g] :
        a \in (IF s.provider = ANTHROPIC THEN {s.anthropicApiKey}
               ELSE OtherKeyValues \cup {KeyOf[ANTHROPIC]}),
        o \in (IF s.provider = OPENAI THEN {s.openaiApiKey}
               ELSE OtherKeyValues \cup {KeyOf[OPENAI]}),
        g \in (IF s.provider = GEMINI THEN {s.geminiApiKey}
               ELSE OtherKeyValues \cup {KeyOf[GEMINI]})}

\* every piece of text that a request holds
TextsOf(req) ==
    {req.url[k] : k \in DOMAIN req.url}
    \cup UNION {{req.headers[h][k] : k \in DOMAIN req.headers[h]} : h \in DOMAIN req.headers}
    \cup UNION {{req.body[b][k] : k \in DOMAIN req.body[b]} : b \in DOMAIN req.body}

\* the API keys of the providers other than p, as the settings s hold them
KeysOfOthers(s, p) ==
    {k \in {IF p = ANTHROPIC THEN <<>> ELSE s.anthropicApiKey,
            IF p = OPENAI THEN <<>> ELSE s.openaiApiKey,
            IF p = GEMINI THEN <<>> ELSE s.geminiApiKey} : k # <<>>}

\* C21: the request of an invocation goes to the endpoint of the selected
\* provider and carries that provider's key in that provider's place and no
\* credential elsewhere; no text of it is a key of another provider, and any
\* settings that differ only in the keys of the other providers give the
\* same request.
C21_RequestIndependentOfOtherKeys ==
    [][\A i \in Invs :
          (Invoked(i) /\ HasEvent(inv'[i].log, "request")) =>
              /\ EndpointOwner(inv'[i].req) = settings.provider
              /\ CarriesOnlyKeyOf(inv'[i].req, settings.provider, SelectedKey)
              /\ \A key \in KeysOfOthers(settings, settings.provider) :
                    \A k \in DOMAIN key : key[k] \notin TextsOf(inv'[i].req)
              /\ \A other \in SameButOtherKeys(settings) :
                    GenerateTitleStart(other, file, docText) = inv'[i]]_vars

\* a request to Gemini has been issued while the keys of Anthropic and OpenAI
\* are set
C21_Witness ==
    \E i \in Invs :
        /\ inv[i].pc = "awaitHttp"
        /\ inv[i].provider = GEMINI
        /\ EndpointOwner(inv[i].req) = GEMINI
        /\ settings.provider = GEMINI
        /\ Cardinality(KeysOfOthers(settings, GEMINI)) = 2


-----------------------------------------------------------------------------
(* Claims about titles without a usable character *)

\* the text has a character other than white space, and all its characters
\* are white space or among \ / : * ? " < > |
OnlyIllegalChars(t) ==
    /\ ~IsBlank(t)
    /\ \A k \in DOMAIN t : t[k] \in IllegalChars \cup WhiteSpace

\* the response answers the request of provider p with such a title
AnswersOnlyIllegalChars(p, response) ==
    /\ p \in ProviderType
    /\ response.status = HTTP_OK
    /\ WellFormedFor(p, response.json)
    /\ OnlyIllegalChars(ValueAt(response.json, PathOf(p)).s)

\* C22: a status-200 response whose title is made only of characters that
\* sanitizeFileName removes is no failure: the step that receives it requests
\* the rename to <directory>/.md, and the step in which that rename resolves
\* shows 'Title updated successfully' with the file at that path.
C22_EmptyNameStillRenamed ==
    [][\A i \in Invs :
          /\ (inv[i].pc = "awaitHttp" /\ Moved(i) /\ Received(i)'
                 /\ AnswersOnlyIllegalChars(inv[i].provider, inv'[i].resp)) =>
                /\ inv'[i].pc = "awaitRename"
                /\ inv'[i].failure = NoErr
                /\ inv'[i].newPath = DirOf(file.path) \o <<".", "m", "d">>
                /\ inv'[i].log[Len(inv'[i].log)] = Ev("rename", inv'[i].newPath)
                /\ FailureNotices(inv'[i].log) = {}
          /\ (inv[i].pc = "awaitRename" /\ Moved(i)
                 /\ AnswersOnlyIllegalChars(inv[i].provider, inv[i].resp)
                 /\ HasEvent(inv'[i].log, "renamed")) =>
                /\ inv'[i].pc = "done"
                /\ inv'[i].log[Len(inv'[i].log)] = Notice(<<"Title updated successfully">>)
                /\ inv'[i].failure = NoErr
                /\ file'.path = DirOf(file.path) \o <<".", "m", "d">>]_vars

\* the file has been renamed to d/.md and the success notification shown
C22_Witness ==
    \E i \in Invs :
        /\ inv[i].pc = "done"
        /\ AnswersOnlyIllegalChars(inv[i].provider, inv[i].resp)
        /\ sanitizeFileName(inv[i].title) = <<>>
        /\ file.path = <<"d", "/", ".", "m", "d">>
        /\ LastNotice(i) = Notice(SuccessNotice)

=============================================================================
